---- MODULE Spec2Model ----
(***************************************************************************)
(* Model of python-alfred-workflow:                                        *)
(*   utils.parse_version        (src/utils.py)                             *)
(*   workflow_version.Version   (src/workflow_version.py)                  *)
(*   Workflow.setting, version, updatable, update_available, check_update, *)
(*   install_update, args       (src/workflow.py)                          *)
(*   check_update, install_update                                          *)
(*                              (src/workflow_updater.py)                  *)
(*   WorkflowActions            (src/workflow_actions.py)                  *)
(*   WorkflowCache.stale, read  (src/workflow_cache.py)                    *)
(*   utils.lock, atomic, atomic_write and the save methods built on them   *)
(*                              (src/utils.py, src/workflow_settings.py,   *)
(*                               src/workflow_cache.py,                    *)
(*                               src/workflow_data.py)                     *)
(* The code is Python 2 (cPickle, unicode, urllib2, implicit relative      *)
(* imports), so mixed int/str comparisons follow CPython 2 ordering.       *)
(*                                                                         *)
(* A Python string is a sequence of one-character strings.  An optional    *)
(* value (None or a value x) is the sequence <<>> or <<x>>.                *)
(***************************************************************************)
EXTENDS Integers, Sequences, FiniteSets, TLC

VARIABLES string, self, other, text, raised, result, pc,
          settings, versionfile, cachefile, now, ret,
          kind, proc, lockfile, dest, temp, inodes, seen,
          host, pending, contacts

versionVars == <<string, self, other, text, raised, result, pc>>

workflowVars == <<settings, versionfile, cachefile, now, ret>>

saveVars == <<kind, proc, lockfile, dest, temp, inodes, seen>>

updateVars == <<host, pending, contacts>>

vars == <<versionVars, workflowVars, saveVars, updateVars>>

(***************************************************************************)
(* Bounds of the model.                                                    *)
(***************************************************************************)
\* numeric components joined by '.' in an input (the code accepts up to 3)
MaxParts == 4
\* characters following the numeric run in an input
MaxRestLen == 4

(***************************************************************************)
(* Python values.                                                          *)
(***************************************************************************)
None == <<>>

Some(x) == <<x>>

IsNone(o) == o = <<>>

Get(o) == o[1]

\* ord() of the characters the model uses (ASCII)
Ord(c) ==
    CASE c = "\n" -> 10
      [] c = "+" -> 43
      [] c = "-" -> 45
      [] c = "." -> 46
      [] c = "0" -> 48
      [] c = "1" -> 49
      [] c = "2" -> 50
      [] c = "3" -> 51
      [] c = "4" -> 52
      [] c = "5" -> 53
      [] c = "6" -> 54
      [] c = "7" -> 55
      [] c = "8" -> 56
      [] c = "9" -> 57
      [] c = "a" -> 97
      [] c = "b" -> 98
      [] c = "v" -> 118
      [] c = "x" -> 120
      [] c = "y" -> 121

DigitChars == {"0", "1", "2", "3", "4", "5", "6", "7", "8", "9"}

DigitOf(n) ==
    CASE n = 0 -> "0" [] n = 1 -> "1" [] n = 2 -> "2" [] n = 3 -> "3"
      [] n = 4 -> "4" [] n = 5 -> "5" [] n = 6 -> "6" [] n = 7 -> "7"
      [] n = 8 -> "8" [] n = 9 -> "9"

\* s[i:] for 0 <= i
SliceFrom(s, i) == IF i >= Len(s) THEN <<>> ELSE SubSeq(s, i + 1, Len(s))

\* s.startswith(c) for a one-character c
StartsWith(s, c) == Len(s) > 0 /\ s[1] = c

\* the longest prefix of s made of characters of set cs
RECURSIVE TakeWhile(_, _)
TakeWhile(s, cs) ==
    IF s = <<>> \/ s[1] \notin cs THEN <<>>
    ELSE <<s[1]>> \o TakeWhile(Tail(s), cs)

\* the longest prefix of s without a line break (what the pattern .+ can eat)
RECURSIVE UpToNewline(_)
UpToNewline(s) ==
    IF s = <<>> \/ s[1] = "\n" THEN <<>>
    ELSE <<s[1]>> \o UpToNewline(Tail(s))

\* s.split(sep): the list of the pieces of s between occurrences of sep
RECURSIVE SplitAcc(_, _, _)
SplitAcc(s, sep, cur) ==
    IF s = <<>> THEN <<cur>>
    ELSE IF s[1] = sep THEN <<cur>> \o SplitAcc(Tail(s), sep, <<>>)
    ELSE SplitAcc(Tail(s), sep, Append(cur, s[1]))

split(s, sep) == SplitAcc(s, sep, <<>>)

\* int(s): the decimal value; ValueError on the empty string or a non-digit
RECURSIVE DecimalValue(_, _)
DecimalValue(s, acc) ==
    IF s = <<>> THEN acc
    ELSE DecimalValue(Tail(s), 10 * acc + (Ord(s[1]) - 48))

int(s) ==
    IF s = <<>> \/ \E i \in 1..Len(s) : s[i] \notin DigitChars
    THEN [ok |-> FALSE, val |-> 0]
    ELSE [ok |-> TRUE, val |-> DecimalValue(s, 0)]

\* '{0}'.format(n) for an int n >= 0: decimal digits, no leading zeros
RECURSIVE FormatInt(_)
FormatInt(n) ==
    IF n < 10 THEN <<DigitOf(n)>>
    ELSE FormatInt(n \div 10) \o <<DigitOf(n % 10)>>

\* bool(x) of an optional string: None and '' are false
Truthy(o) == ~IsNone(o) /\ Len(Get(o)) > 0

(***************************************************************************)
(* utils.parse_version                                                     *)
(***************************************************************************)
\* re.compile(r'([0-9\.]+)([-+].+)?').match: anchored at the start only
version_matcher(s) ==
    LET g1 == TakeWhile(s, DigitChars \cup {"."})
        rest == SliceFrom(s, Len(g1))
        tail == IF rest = <<>> THEN <<>> ELSE UpToNewline(Tail(rest))
        g2 == IF rest # <<>> /\ rest[1] \in {"-", "+"} /\ tail # <<>>
              THEN Some(<<rest[1]>> \o tail)
              ELSE None
    IN  IF g1 = <<>> THEN [matched |-> FALSE, group1 |-> <<>>, group2 |-> None]
        ELSE [matched |-> TRUE, group1 |-> g1, group2 |-> g2]

\* raise ValueError(message): no segments are returned
ValueError(message) == [ok |-> FALSE, error |-> message, segments |-> <<>>]

\* parse_suffix without the check that the suffix starts with '-'
parse_suffix_unchecked(suffix) ==
    IF ~Truthy(suffix) THEN [ok |-> TRUE, release |-> None, build |-> None]
    ELSE LET parts == split(Get(suffix), "+")
         IN  [ok |-> TRUE,
              release |-> Some(SliceFrom(parts[1], 1)),
              build |-> IF Len(parts) > 1 THEN Some(parts[2]) ELSE None]

\* parse_suffix storing the release with the '-' that introduces it
parse_suffix_keeping_separator(suffix) ==
    IF ~Truthy(suffix) THEN [ok |-> TRUE, release |-> None, build |-> None]
    ELSE LET parts == split(Get(suffix), "+")
             release == parts[1]
         IN  IF StartsWith(release, "-")
             THEN [ok |-> TRUE,
                   release |-> Some(release),
                   build |-> IF Len(parts) > 1 THEN Some(parts[2]) ELSE None]
             ELSE [ok |-> FALSE, release |-> None, build |-> None]

\* the suffix branch: release and build from match.group(2)
parse_suffix(suffix) ==
    IF ~Truthy(suffix) THEN [ok |-> TRUE, release |-> None, build |-> None]
    ELSE LET parts == split(Get(suffix), "+")
             release == parts[1]
         IN  IF StartsWith(release, "-")
             THEN [ok |-> TRUE,
                   release |-> Some(SliceFrom(release, 1)),
                   build |-> IF Len(parts) > 1 THEN Some(parts[2]) ELSE None]
             ELSE [ok |-> FALSE, release |-> None, build |-> None]

\* match_input without the removal of the leading 'v'
match_input_keeping_v(s) == version_matcher(s)

\* the match object: the pattern applied to the string less one leading 'v'
match_input(s) ==
    IF StartsWith(s, "v") THEN version_matcher(SliceFrom(s, 1))
    ELSE version_matcher(s)

parse_version(s) ==
    LET match == match_input(s)
    IN  IF ~match.matched THEN ValueError("Invalid version (format)")
        ELSE
        LET parts == split(match.group1, ".")
            major == int(parts[1])
            minor == IF Len(parts) > 1 THEN int(parts[2]) ELSE [ok |-> TRUE, val |-> 0]
            patch == IF Len(parts) > 2 THEN int(parts[3]) ELSE [ok |-> TRUE, val |-> 0]
            sfx == parse_suffix(match.group2)
        IN  IF ~major.ok THEN ValueError("invalid literal for int()")
            ELSE IF ~minor.ok THEN ValueError("invalid literal for int()")
            ELSE IF ~patch.ok THEN ValueError("invalid literal for int()")
            ELSE IF Len(parts) > 3 THEN ValueError("Invalid version (too long)")
            ELSE IF ~sfx.ok THEN ValueError("Invalid type (must start with -)")
            ELSE [ok |-> TRUE, error |-> "",
                  segments |-> <<major.val, minor.val, patch.val,
                                 sfx.release, sfx.build>>]

(***************************************************************************)
(* workflow_version.Version                                                *)
(***************************************************************************)
\* Version.__init__ once parse_version has returned seg
NewVersion(version, seg) ==
    [class |-> "Version", version |-> version,
     major |-> seg[1], minor |-> seg[2], patch |-> seg[3],
     release |-> seg[4], build |-> seg[5]]

\* a plain str object, as a caller may hand one to a comparison
StrObject(s) == [class |-> "str", value |-> s]

\* isinstance(o, Version)
IsVersion(o) == o.class = "Version"

\* Version.segments
segments(v) == <<v.major, v.minor, v.patch, v.release, v.build>>

\* Version.__str__
__str__(v) ==
    LET version == FormatInt(v.major) \o <<".">> \o FormatInt(v.minor)
                   \o <<".">> \o FormatInt(v.patch)
        withRelease == IF Truthy(v.release)
                       THEN version \o <<"-">> \o Get(v.release) ELSE version
    IN  IF Truthy(v.build) THEN withRelease \o <<"+">> \o Get(v.build)
        ELSE withRelease

\* the outcome of a comparison method: a boolean, or ValueError raised
Return(b) == [raised |-> FALSE, value |-> b]

NotAVersion == [raised |-> TRUE, value |-> FALSE]

\* Python 2 comparison of two tuples of ints: lexicographic
RECURSIVE TupleGt(_, _)
TupleGt(l, r) ==
    IF l = <<>> THEN FALSE
    ELSE IF r = <<>> THEN TRUE
    ELSE IF l[1] # r[1] THEN l[1] > r[1]
    ELSE TupleGt(Tail(l), Tail(r))

\* Python 2 comparison of two strings: lexicographic by code point
RECURSIVE StrGt(_, _)
StrGt(l, r) ==
    IF l = <<>> THEN FALSE
    ELSE IF r = <<>> THEN TRUE
    ELSE IF l[1] # r[1] THEN Ord(l[1]) > Ord(r[1])
    ELSE StrGt(Tail(l), Tail(r))

IntValue(n) == [type |-> "int", int |-> n, str |-> <<>>]

StrValue(s) == [type |-> "str", int |-> 0, str |-> s]

\* x > y in CPython 2: numbers order before strings, whatever their values
PyGt(x, y) ==
    IF x.type = "int" /\ y.type = "int" THEN x.int > y.int
    ELSE IF x.type = "str" /\ y.type = "str" THEN StrGt(x.str, y.str)
    ELSE x.type = "str"

\* Version.__eq__
__eq__(v, o) ==
    IF ~IsVersion(o) THEN NotAVersion
    ELSE Return(segments(v) = segments(o))

\* __ne__ answering True for an operand that is not a Version
__ne___unchecked(v, o) ==
    IF ~IsVersion(o) THEN Return(TRUE) ELSE Return(segments(v) # segments(o))

\* Version.__ne__
__ne__(v, o) ==
    LET eq == __eq__(v, o)
    IN  IF eq.raised THEN NotAVersion ELSE Return(~eq.value)

\* numeric_key taking major and minor only
numeric_key_without_patch(v) == SubSeq(segments(v), 1, 2)

\* segments[:3]: the (major, minor, patch) tuple
numeric_key(v) == SubSeq(segments(v), 1, 3)

\* release_gt with the two one-sided branches exchanged
release_gt_exchanged(v, o) ==
    IF ~Truthy(v.release) /\ ~Truthy(o.release) THEN FALSE
    ELSE IF Truthy(v.release) /\ ~Truthy(o.release) THEN TRUE
    ELSE IF Truthy(o.release) /\ ~Truthy(v.release) THEN FALSE
    ELSE FALSE

\* the branch of __gt__ taken when the numeric tuples are equal
release_gt(v, o) ==
    LET leftsegments == split(Get(v.release), ".")
        leftnumber == IF Len(leftsegments) = 2 THEN StrValue(leftsegments[2])
                      ELSE IntValue(-1)
        rightsegments == split(Get(o.release), ".")
        rightnumber == IF Len(rightsegments) = 2 THEN StrValue(rightsegments[2])
                       ELSE IntValue(0)
    IN  IF ~Truthy(v.release) /\ ~Truthy(o.release) THEN FALSE
        ELSE IF Truthy(v.release) /\ ~Truthy(o.release) THEN FALSE
        ELSE IF Truthy(o.release) /\ ~Truthy(v.release) THEN TRUE
        ELSE PyGt(leftnumber, rightnumber)

\* Version.__gt__
__gt__(v, o) ==
    IF ~IsVersion(o) THEN NotAVersion
    ELSE
    LET left == numeric_key(v)
        right == numeric_key(o)
    IN  IF TupleGt(left, right) THEN Return(TRUE)
        ELSE IF left = right THEN Return(release_gt(v, o))
        ELSE Return(FALSE)

\* Version.__ge__
__ge__(v, o) ==
    IF ~IsVersion(o) THEN NotAVersion ELSE Return(~__gt__(o, v).value)

\* Version.__lt__
__lt__(v, o) ==
    IF ~IsVersion(o) THEN NotAVersion ELSE Return(__gt__(o, v).value)

\* Version.__le__
__le__(v, o) ==
    IF ~IsVersion(o) THEN NotAVersion ELSE Return(~__gt__(v, o).value)

(***************************************************************************)
(* Inputs.  An input string is an optional 'v', a run of digits and dots   *)
(* (numeric components joined by '.'), and the characters after the run.   *)
(***************************************************************************)
Prefixes == {<<>>, <<"v">>}

\* the numeric components an input is built from ('' is an empty component)
NumTokens == {<<>>, <<"0">>, <<"1">>, <<"0", "1">>, <<"1", "0">>}

RECURSIVE JoinDots(_)
JoinDots(ts) ==
    IF ts = <<>> THEN <<>>
    ELSE IF Len(ts) = 1 THEN ts[1]
    ELSE ts[1] \o <<".">> \o JoinDots(Tail(ts))

\* every run of up to MaxParts components
NumRuns == {JoinDots(ts) : ts \in UNION {[1..k -> NumTokens] : k \in 0..MaxParts}}

RestChars == {"-", "+", ".", "a"}

\* every string of up to MaxRestLen characters that can follow a run
Rests == UNION {[1..n -> RestChars] : n \in 0..MaxRestLen}

\* a few runs, each tried with every rest
SampleRuns == {<<>>, <<"1">>, <<"1", ".", "0">>, <<"1", ".", "0", ".", "1">>}

\* a few rests, each tried with every run
SampleRests == {<<>>, <<"a">>, <<"-", "a">>, <<"+", "a">>}

Inputs ==
    {p \o nr[1] \o nr[2] :
        p \in Prefixes,
        nr \in (NumRuns \X SampleRests) \cup (SampleRuns \X Rests)}

\* inputs of the ordering scenarios: numeric part and suffix
OrderNumerics ==
    {<<"1">>, <<"2">>, <<"1", ".", "1">>, <<"1", ".", "0", ".", "1">>,
     <<"1", ".", "1", ".", "0">>}

OrderSuffixes ==
    {<<>>, <<"-", "a">>, <<"-", "b">>,
     <<"-", "a", ".", "0">>,
     <<"-", "a", ".", "1">>, <<"-", "a", ".", "2">>, <<"-", "a", ".", "1", "0">>,
     <<"-", "a", ".", "1", ".", "2">>,
     <<"-", "a", "+", "x">>, <<"-", "a", "+", "y">>, <<"-", "+", "x">>}

OrderInputs ==
    {n \o sfx : n \in OrderNumerics, sfx \in OrderSuffixes}
    \cup {<<"v">> \o n : n \in OrderNumerics}

\* Version(s) as an expression: the object, or None when parse_version raises
Version(s) ==
    LET r == parse_version(s)
    IN  IF r.ok THEN Some(NewVersion(s, r.segments)) ELSE None

\* the right operands: Version objects, and one plain string
OrderOthers ==
    {Get(Version(s)) : s \in {i \in OrderInputs : parse_version(i).ok}}
    \cup {StrObject(<<"1", ".", "0", ".", "1">>)}

NoResult == [op \in {} |-> NotAVersion]

(***************************************************************************)
(* Values of the settings file: None, booleans, ints, strings and nested   *)
(* dictionaries, each tagged with its type.  A key is a Python string.     *)
(***************************************************************************)
PyNone == [t |-> "none", v |-> <<>>]

PyBool(b) == [t |-> "bool", v |-> b]

PyInt(n) == [t |-> "int", v |-> n]

PyStr(s) == [t |-> "str", v |-> s]

PyDict(f) == [t |-> "dict", v |-> f]

TypeError == [t |-> "raise", v |-> "TypeError"]

EmptyDict == PyDict([k \in {} |-> PyNone])

\* bool(x)
bool(x) ==
    CASE x.t = "none" -> FALSE
      [] x.t = "bool" -> x.v
      [] x.t = "int" -> x.v # 0
      [] x.t = "str" -> x.v # <<>>
      [] x.t = "dict" -> DOMAIN x.v # {}

\* sub in s, for two strings
Contains(sub, s) ==
    \E i \in 0..(Len(s) - Len(sub)) : SubSeq(s, i + 1, i + Len(sub)) = sub

\* key in x: membership in a dict, substring of a string, TypeError otherwise
PyIn(key, x) ==
    CASE x.t = "dict" -> PyBool(key \in DOMAIN x.v)
      [] x.t = "str" -> PyBool(Contains(key, x.v))
      [] OTHER -> TypeError

\* x[key]: the entry of a dict; a string cannot be indexed by a string
PyItem(x, key) == IF x.t = "dict" THEN x.v[key] ELSE TypeError

key_update == <<"u", "p", "d", "a", "t", "e">>

key_enabled == <<"e", "n", "a", "b", "l", "e", "d">>

key_frequency == <<"f", "r", "e", "q", "u", "e", "n", "c", "y">>

key_repository == <<"r", "e", "p", "o", "s", "i", "t", "o", "r", "y">>

key_github == <<"g", "i", "t", "h", "u", "b">>

key_username == <<"u", "s", "e", "r", "n", "a", "m", "e">>

key_version == <<"v", "e", "r", "s", "i", "o", "n">>

(***************************************************************************)
(* workflow.Workflow: settings, version and the update decision.           *)
(***************************************************************************)
\* Workflow.setting(*params): the loop over the chain of keys
RECURSIVE setting(_, _)
setting(value, params) ==
    IF value.t # "raise" /\ bool(value) /\ Len(params) > 0
    THEN LET found == PyIn(params[1], value)
         IN  IF found.t = "raise" THEN TypeError
             ELSE setting(IF found.v THEN PyItem(value, params[1]) ELSE PyNone,
                          Tail(params))
    ELSE value

\* x and y, where y is evaluated only when x is true
PyAnd(x, y) == IF x.t = "raise" \/ ~bool(x) THEN x ELSE y

\* Workflow.updatable(include_enabled_flag)
updatable(settings_, include_enabled_flag) ==
    LET enabled_ == setting(settings_, <<key_update, key_enabled>>)
        github_setting == setting(settings_, <<key_update, key_repository, key_github>>)
        configured == PyAnd(github_setting,
                            PyAnd(PyIn(key_username, github_setting),
                                  PyIn(key_repository, github_setting)))
    IN  IF include_enabled_flag THEN PyAnd(enabled_, configured) ELSE configured

\* an object that is not a Version: the value None handed to a comparison
NoneObject == [class |-> "NoneType", value |-> <<>>]

Raise(error) == [raised |-> TRUE, error |-> error, value |-> None]

Returns(value) == [raised |-> FALSE, error |-> "", value |-> value]

\* Version(text) in Workflow.version: the object, or the ValueError raised
made_version(parsed) ==
    IF IsNone(parsed) THEN Raise("ValueError") ELSE Returns(parsed)

\* Workflow.version once the setting 'version' is read
version_from(configured, file) ==
    LET chosen == IF bool(configured) THEN Some(configured.v) ELSE file
    IN  IF ~Truthy(chosen) THEN Returns(None)
        ELSE made_version(Version(Get(chosen)))

\* Workflow.version: the setting 'version', else the content of the file
\* named version, made a Version; None when neither gives a text
workflow_version(settings_, file) ==
    IF setting(settings_, <<key_version>>).t = "raise" THEN Raise("TypeError")
    ELSE version_from(setting(settings_, <<key_version>>), file)

(***************************************************************************)
(* workflow_cache.WorkflowCache on one file name.  The file is None or a   *)
(* record of its modification time and its content; a regenerator is None  *)
(* or the content it produces.                                             *)
(***************************************************************************)
SecondsPerDay == 86400

\* WorkflowCache.stale(filename, threshold) at time clock
stale(file, clock, threshold) ==
    LET age == IF ~IsNone(file) THEN clock - Get(file).mtime ELSE 0
    IN  age > threshold /\ threshold > 0

\* WorkflowCache.save(filename, data) at time clock, on a writable disk
cache_save(clock, data) == Some([mtime |-> clock, data |-> data])

\* WorkflowCache.read(filename, regenerator, threshold) at time clock:
\* the value returned, the calls of the regenerator, the file afterwards
read(file, clock, regenerator, threshold) ==
    IF ~IsNone(file) /\ (threshold = -1 \/ ~stale(file, clock, threshold))
    THEN [value |-> Some(Get(file).data), called |-> 0, file |-> file]
    ELSE IF IsNone(regenerator)
    THEN [value |-> None, called |-> 0, file |-> file]
    ELSE [value |-> regenerator, called |-> 1,
          file |-> cache_save(clock, Get(regenerator))]

\* the dictionary the updater caches: its keys, and the values under them
Release(keys, tag, prerelease) ==
    [keys |-> keys, version |-> tag, prerelease |-> prerelease]

\* latest > workflow.version, where Version(...) or workflow.version may
\* have raised
newer(latest, own) ==
    IF IsNone(latest) \/ own.raised THEN [raised |-> TRUE, value |-> FALSE]
    ELSE __gt__(Get(latest),
                IF IsNone(own.value) THEN NoneObject ELSE Get(own.value))

\* Workflow.update_available once newest > self.version is evaluated
return_cached(cached, gt) ==
    IF gt.raised THEN Raise("ValueError")
    ELSE IF gt.value THEN Returns(cached)
    ELSE Returns(None)

\* Workflow.update_available once the cache is read
cached_newer(cached, settings_, versionfile_) ==
    IF IsNone(cached) \/ Get(cached).keys = {}
       \/ "version" \notin Get(cached).keys
    THEN Returns(None)
    ELSE return_cached(cached,
                       newer(Version(Get(cached).version),
                             workflow_version(settings_, versionfile_)))

\* Workflow.update_available of an updatable workflow, once the setting
\* 'frequency' is read
read_cached(configured, settings_, versionfile_, file, clock) ==
    IF configured.t = "raise" THEN Raise("TypeError")
    ELSE cached_newer(read(file, clock, None,
                           (IF bool(configured) THEN configured.v ELSE 1)
                           * SecondsPerDay).value,
                      settings_, versionfile_)

\* Workflow.update_available once updatable() is evaluated
when_updatable(can, settings_, versionfile_, file, clock) ==
    IF can.t = "raise" THEN Raise("TypeError")
    ELSE IF ~bool(can) THEN Returns(None)
    ELSE read_cached(setting(settings_, <<key_update, key_frequency>>),
                     settings_, versionfile_, file, clock)

\* Workflow.update_available() at time clock
update_available(settings_, versionfile_, file, clock) ==
    when_updatable(updatable(settings_, TRUE), settings_, versionfile_, file,
                   clock)

(***************************************************************************)
(* The states a workflow is observed in: its settings, the file named      *)
(* version, the cache file '.workflow_updater' and the time of day.        *)
(***************************************************************************)
SecondsPerHour == 3600

NoEntries == [k \in {} |-> PyNone]

Entry(present, key, value) == IF present THEN key :> value ELSE NoEntries

GithubSetting(gh) ==
    PyDict(Entry(TRUE, key_username, PyStr(<<"w">>))
           @@ Entry(gh = "full", key_repository, PyStr(<<"a">>)))

UpdateSetting(en, gh, fr) ==
    PyDict(Entry(en # "absent", key_enabled, PyBool(en = "on"))
           @@ Entry(gh # "absent", key_repository,
                    PyDict(key_github :> GithubSetting(gh)))
           @@ Entry(fr # 0, key_frequency, PyInt(fr)))

Settings(en, gh, fr, ver) ==
    PyDict(Entry(TRUE, key_update, UpdateSetting(en, gh, fr))
           @@ Entry(~IsNone(ver), key_version, PyStr(Get(ver))))

OwnVersions == {None, Some(<<"1", ".", "0">>)}

SettingsStates ==
    {EmptyDict}
    \cup {Settings(en, "full", 0, ver) :
            en \in {"absent", "on", "off"}, ver \in OwnVersions}
    \cup {Settings("on", gh, 0, Some(<<"1", ".", "0">>)) :
            gh \in {"absent", "partial", "full"}}
    \cup {Settings("on", "full", 7, ver) : ver \in OwnVersions}

CachedData ==
    {Release({}, <<>>, FALSE), Release({"url"}, <<>>, FALSE)}
    \cup {Release({"url", "version", "prerelease"}, tag, FALSE) :
            tag \in {<<"1", ".", "1">>, <<"1", ".", "0">>, <<"0", ".", "9">>,
                     <<"a">>}}
    \cup {Release({"url", "version", "prerelease"}, <<"1", ".", "1", "-", "a">>, TRUE)}

Regenerators ==
    {None, Some(Release({}, <<>>, FALSE)),
     Some(Release({"url", "version", "prerelease"}, <<"1", ".", "2">>, FALSE))}

Thresholds == {-1, 0, SecondsPerHour, SecondsPerDay}

Instants ==
    {0, SecondsPerHour, SecondsPerHour + 1, SecondsPerDay, SecondsPerDay + 1,
     7 * SecondsPerDay, 7 * SecondsPerDay + 1}

(***************************************************************************)
(* Checking for updates: Workflow.check_update, Workflow.install_update,   *)
(* the '> workflow' menu, and workflow_updater.check_update, which runs in *)
(* a thread of its own and asks the release host.  host is the dictionary  *)
(* fill() builds from the latest release of the host ({} without one),     *)
(* pending the thread started and not yet run, contacts the times of the   *)
(* last two calls of the host made by checks that were not forced.         *)
(***************************************************************************)
key_include_prereleases ==
    <<"i", "n", "c", "l", "u", "d", "e", "-", "p", "r", "e", "r", "e", "l",
      "e", "a", "s", "e", "s">>

\* Workflow.check_update: whether the updater is started, and in which mode
check_mode_when_cached(can, forced, cached) ==
    [start |-> can /\ (forced \/ cached),
     mode |-> IF forced THEN "always"
              ELSE IF cached THEN "only_when_available" ELSE "never"]

check_mode(can, forced, cached) ==
    [start |-> can /\ (forced \/ ~cached),
     mode |-> IF forced THEN "always"
              ELSE IF cached THEN "only_when_available" ELSE "never"]

\* workflow_updater.check_update once latest > workflow.version is
\* evaluated
available_(gt) ==
    IF gt.raised THEN Raise("ValueError") ELSE Returns(gt.value)

\* workflow_updater.check_update up to the decision: the release read from
\* the cache (asking the host through fill when the file is missing or
\* older than an hour), and whether it is an available update
updater_available(settings_, versionfile_, release) ==
    IF release.keys = {} THEN Returns(FALSE)
    ELSE IF /\ release.prerelease
            /\ ~bool(setting(settings_, <<key_update, key_include_prereleases>>))
    THEN Returns(FALSE)
    ELSE available_(newer(Version(release.version),
                          workflow_version(settings_, versionfile_)))

\* the record of a call: what was called, how, and what came of it
Outcome(op, forced, mode, available, notified, record, failed) ==
    [op |-> op, forced |-> forced, mode |-> mode, available |-> available,
     notified |-> notified, record |-> record, raised |-> failed]

\* settings of a workflow with a repository: update.enabled, frequency,
\* include-prereleases, and version
UpdaterSettings(en, fr, pre, ver) ==
    PyDict(Entry(TRUE, key_update,
                 PyDict(Entry(TRUE, key_enabled, PyBool(en))
                        @@ Entry(TRUE, key_repository,
                                 PyDict(key_github :> GithubSetting("full")))
                        @@ Entry(fr # 0, key_frequency, PyInt(fr))
                        @@ Entry(pre, key_include_prereleases, PyBool(TRUE))))
           @@ Entry(~IsNone(ver), key_version, PyStr(Get(ver))))

UpdaterStates ==
    {UpdaterSettings(TRUE, fr, FALSE, Some(<<"1", ".", "0">>)) : fr \in {1, 7}}
    \cup {UpdaterSettings(TRUE, 0, TRUE, Some(<<"1", ".", "0">>)),
          UpdaterSettings(FALSE, 0, FALSE, Some(<<"1", ".", "0">>)),
          UpdaterSettings(TRUE, 0, FALSE, None)}

\* what the host answers: no release, the version installed, a newer
\* release, and a newer release flagged as prerelease
HostReleases ==
    {Release({}, <<>>, FALSE)}
    \cup {Release({"url", "version", "prerelease"}, tag, FALSE) :
            tag \in {<<"1", ".", "0">>, <<"1", ".", "1">>}}
    \cup {Release({"url", "version", "prerelease"}, <<"1", ".", "1">>, TRUE)}

\* the times at which the workflow runs
RunInstants ==
    {0, SecondsPerHour + 1, SecondsPerDay + 1, 7 * SecondsPerDay + 1}

\* no update check is running
NoUpdate ==
    /\ host = Release({}, <<>>, FALSE)
    /\ pending = None
    /\ contacts = <<>>

(***************************************************************************)
(* Saving a file: WorkflowSettings.save, WorkflowCache.save and            *)
(* WorkflowData.save, each an atomic_save function wrapped by utils.atomic *)
(* that writes through utils.atomic_write; the settings also take          *)
(* utils.lock.  Several callers save to the same path, each a thread of    *)
(* its own; a caller that is the main thread of its process can receive    *)
(* SIGTERM.                                                                *)
(*                                                                         *)
(* The directory holds three paths: the destination, the temporary file    *)
(* (path + '.aw.temp') and the lock file (path + '.lock').  dest and temp  *)
(* name the inode a path refers to, lockfile names the caller that created *)
(* the lock file; "none" is a path that does not exist.  A file content is *)
(* a sequence of blocks.                                                   *)
(***************************************************************************)
Procs == {"p1", "p2"}

Kinds == {"settings", "cache", "data"}

Inodes == {"old"} \cup Procs

\* the content of the destination before any save
Old == <<"old", "old">>

\* the serialized data of caller p: two blocks
Data(p) == <<p, p>>

Max(a, b) == IF a > b THEN a ELSE b

\* write(blocks) at block offset off of a file holding content
WriteAt(content, off, blocks) ==
    [i \in 1..Max(Len(content), off + Len(blocks)) |->
        IF i > off /\ i <= off + Len(blocks) THEN blocks[i - off]
        ELSE IF i <= Len(content) THEN content[i]
        ELSE "nul"]

os_open_without_excl(file, p) == [ok |-> TRUE, file |-> p]

\* os.open(self.file, os.O_CREAT | os.O_EXCL | os.O_RDWR) by caller p:
\* fails with EEXIST when the file exists
os_open(file, p) ==
    IF file = "none" THEN [ok |-> TRUE, file |-> p]
    ELSE [ok |-> FALSE, file |-> file]

\* the exceptions atomic_save catches
Caught == {"OSError", "IOError"}

\* a caller before it calls save
Idle(main, old) ==
    [pc |-> "idle", main |-> main, old |-> old, handler |-> old,
     caught |-> <<>>, exc |-> "", locked |-> FALSE, fd |-> "none",
     buffer |-> <<>>, offset |-> 0, prev |-> None, signalled |-> FALSE,
     body |-> "", inner |-> "unset", returned |-> "unset", invoked |-> FALSE]

\* the callers: a thread that is not the main thread, and main threads
\* with the default or with a callable SIGTERM handler
Callers == {Idle(FALSE, "SIG_DFL"), Idle(TRUE, "SIG_DFL"), Idle(TRUE, "callable")}

\* the inodes after path goes and handle closes: an inode that no path and
\* no open file refers to is freed
Freed(files, to, tmp, open) ==
    [i \in Inodes |-> IF i \in {to, tmp} \cup open THEN files[i] ELSE <<>>]

\* the inodes callers other than p hold open
OpenElsewhere(p) == {proc[q].fd : q \in Procs \ {p}}

\* nothing is being saved
NoSave ==
    /\ kind = "settings"
    /\ proc = [p \in Procs |-> Idle(TRUE, "SIG_DFL")]
    /\ lockfile = "none"
    /\ dest = "none"
    /\ temp = "none"
    /\ inodes = [i \in Inodes |-> <<>>]
    /\ seen = None

\* no workflow is running
NoWorkflow ==
    /\ settings = EmptyDict
    /\ versionfile = None
    /\ cachefile = None
    /\ now = 0
    /\ ret = None

(***************************************************************************)
(* Construction, rendering and re-parsing of one input.                    *)
(***************************************************************************)
Init ==
    /\ string \in Inputs
    /\ self = None
    /\ other = None
    /\ text = None
    /\ raised = ""
    /\ result = NoResult
    /\ pc = "new"
    /\ NoWorkflow
    /\ NoSave
    /\ NoUpdate

\* self = Version(string)
__init__ ==
    /\ pc = "new"
    /\ LET seg == parse_version(string)
       IN  IF seg.ok
           THEN /\ self' = Some(NewVersion(string, seg.segments))
                /\ raised' = ""
                /\ pc' = "constructed"
           ELSE /\ self' = None
                /\ raised' = seg.error
                /\ pc' = "failed"
    /\ UNCHANGED <<string, other, text, result>>
    /\ UNCHANGED <<workflowVars, saveVars, updateVars>>

\* text = str(self)
Render ==
    /\ pc = "constructed"
    /\ text' = Some(__str__(Get(self)))
    /\ pc' = "rendered"
    /\ UNCHANGED <<string, self, other, raised, result>>
    /\ UNCHANGED <<workflowVars, saveVars, updateVars>>

\* other = Version(text)
Reparse ==
    /\ pc = "rendered"
    /\ LET seg == parse_version(Get(text))
       IN  IF seg.ok
           THEN /\ other' = Some(NewVersion(Get(text), seg.segments))
                /\ raised' = ""
                /\ pc' = "reparsed"
           ELSE /\ other' = None
                /\ raised' = seg.error
                /\ pc' = "refused"
    /\ UNCHANGED <<string, self, text, result>>
    /\ UNCHANGED <<workflowVars, saveVars, updateVars>>

Next == __init__ \/ Render \/ Reparse

Spec == Init /\ [][Next]_vars

(***************************************************************************)
(* Comparison of two versions: self is constructed from string, then the   *)
(* six comparison methods are called with other, in a fixed order.         *)
(***************************************************************************)
InitOrder ==
    /\ string \in OrderInputs
    /\ self = None
    /\ other \in {Some(o) : o \in OrderOthers}
    /\ text = None
    /\ raised = ""
    /\ result = NoResult
    /\ pc = "new"
    /\ NoWorkflow
    /\ NoSave
    /\ NoUpdate

\* self == other
Eq ==
    /\ pc = "constructed"
    /\ result' = result @@ ("eq" :> __eq__(Get(self), Get(other)))
    /\ pc' = "ne"
    /\ UNCHANGED <<string, self, other, text, raised>>
    /\ UNCHANGED <<workflowVars, saveVars, updateVars>>

\* self != other
Ne ==
    /\ pc = "ne"
    /\ result' = result @@ ("ne" :> __ne__(Get(self), Get(other)))
    /\ pc' = "gt"
    /\ UNCHANGED <<string, self, other, text, raised>>
    /\ UNCHANGED <<workflowVars, saveVars, updateVars>>

\* self > other
Gt ==
    /\ pc = "gt"
    /\ result' = result @@ ("gt" :> __gt__(Get(self), Get(other)))
    /\ pc' = "ge"
    /\ UNCHANGED <<string, self, other, text, raised>>
    /\ UNCHANGED <<workflowVars, saveVars, updateVars>>

\* self >= other
Ge ==
    /\ pc = "ge"
    /\ result' = result @@ ("ge" :> __ge__(Get(self), Get(other)))
    /\ pc' = "lt"
    /\ UNCHANGED <<string, self, other, text, raised>>
    /\ UNCHANGED <<workflowVars, saveVars, updateVars>>

\* self < other
Lt ==
    /\ pc = "lt"
    /\ result' = result @@ ("lt" :> __lt__(Get(self), Get(other)))
    /\ pc' = "le"
    /\ UNCHANGED <<string, self, other, text, raised>>
    /\ UNCHANGED <<workflowVars, saveVars, updateVars>>

\* self <= other
Le ==
    /\ pc = "le"
    /\ result' = result @@ ("le" :> __le__(Get(self), Get(other)))
    /\ pc' = "compared"
    /\ UNCHANGED <<string, self, other, text, raised>>
    /\ UNCHANGED <<workflowVars, saveVars, updateVars>>

NextOrder == __init__ \/ Eq \/ Ne \/ Gt \/ Ge \/ Lt \/ Le

SpecOrder == InitOrder /\ [][NextOrder]_vars

(***************************************************************************)
(* A workflow over time: the update decision and reads of the cache file,  *)
(* in any order, while time passes.  ret records the last call: what was   *)
(* called, with which arguments, on which file, when, and its outcome.     *)
(***************************************************************************)
InitWorkflow ==
    /\ string = <<>>
    /\ self = None
    /\ other = None
    /\ text = None
    /\ raised = ""
    /\ result = NoResult
    /\ pc = "idle"
    /\ settings \in SettingsStates
    /\ versionfile \in OwnVersions
    /\ cachefile \in {None} \cup {Some([mtime |-> 0, data |-> d]) : d \in CachedData}
    /\ now \in Instants
    /\ ret = None
    /\ NoSave
    /\ NoUpdate

\* Workflow.update_available()
UpdateAvailable ==
    /\ ret' = Some([op |-> "update_available", regenerator |-> None,
                    threshold |-> 0, before |-> cachefile, at |-> now,
                    called |-> 0,
                    out |-> update_available(settings, versionfile, cachefile, now)])
    /\ UNCHANGED <<settings, versionfile, cachefile, now>>
    /\ UNCHANGED <<versionVars, saveVars, updateVars>>

\* WorkflowCache.read('.workflow_updater', regenerator, threshold)
CacheRead ==
    \E regenerator \in Regenerators, threshold \in Thresholds :
        LET r == read(cachefile, now, regenerator, threshold)
        IN  /\ cachefile' = r.file
            /\ ret' = Some([op |-> "read", regenerator |-> regenerator,
                            threshold |-> threshold, before |-> cachefile,
                            at |-> now, called |-> r.called,
                            out |-> Returns(r.value)])
            /\ UNCHANGED <<settings, versionfile, now>>
            /\ UNCHANGED <<versionVars, saveVars, updateVars>>

\* time.time() advances between two calls
Pass ==
    /\ \E later \in Instants : later > now /\ now' = later
    /\ UNCHANGED <<settings, versionfile, cachefile, ret>>
    /\ UNCHANGED <<versionVars, saveVars, updateVars>>

NextWorkflow == UpdateAvailable \/ CacheRead \/ Pass

SpecWorkflow == InitWorkflow /\ [][NextWorkflow]_vars

(***************************************************************************)
(* Concurrent saves to one path, a reader of the destination, and SIGTERM. *)
(***************************************************************************)
InitSave ==
    /\ string = <<>>
    /\ self = None
    /\ other = None
    /\ text = None
    /\ raised = ""
    /\ result = NoResult
    /\ pc = "idle"
    /\ settings = EmptyDict
    /\ versionfile = None
    /\ cachefile = None
    /\ now = 0
    /\ ret = None
    /\ kind \in Kinds
    /\ proc \in {[p \in Procs |-> IF p = "p1" THEN c ELSE Idle(TRUE, "SIG_DFL")] :
                   c \in Callers}
    /\ lockfile = "none"
    /\ dest \in {"none", "old"}
    /\ temp = "none"
    /\ inodes = [i \in Inodes |-> IF i = "old" /\ dest = "old" THEN Old ELSE <<>>]
    /\ seen = None
    /\ NoUpdate

\* what a read of the destination gives: its content, or no such file
Stored == IF dest = "none" THEN <<"absent">> ELSE inodes[dest]

\* where the exception raised at a point of the save continues
Unwind(at) ==
    CASE at \in {"acquire", "mark", "restore"} -> "raised"
      [] at = "enter" -> "del"
      [] at = "open" -> IF kind = "settings" THEN "unmark" ELSE "return"
      [] at \in {"write", "rename"} -> "remove"
      [] at = "remove" -> "close"
      [] at = "unlink" -> "return"
      [] OTHER -> at

\* where the save continues after atomic_write
AfterWrite == IF kind = "settings" THEN "unmark" ELSE "return"

Others == <<versionVars, workflowVars, updateVars>>

\* save(): the handler of atomic starts; on the main thread it installs
\* the SIGTERM handler, then calls atomic_save
atomic_enter(p) ==
    /\ proc[p].pc = "idle"
    /\ proc' = [proc EXCEPT ![p].pc = IF kind = "settings" THEN "acquire" ELSE "open",
                            ![p].handler = IF proc[p].main THEN "deferring" ELSE @]
    /\ UNCHANGED <<kind, lockfile, dest, temp, inodes, seen, Others>>

\* lock.acquire: os.open of the lock file; on EEXIST sleep and try again
lock_acquire(p) ==
    /\ proc[p].pc = "acquire"
    /\ LET r == os_open(lockfile, p)
       IN  /\ lockfile' = r.file
           /\ proc' = [proc EXCEPT ![p].pc = IF r.ok THEN "mark" ELSE "acquire"]
    /\ UNCHANGED <<kind, dest, temp, inodes, seen, Others>>

\* lock.acquire: self.locked = True
lock_acquire_locked(p) ==
    /\ proc[p].pc = "mark"
    /\ proc' = [proc EXCEPT ![p].pc = "enter", ![p].locked = TRUE]
    /\ UNCHANGED <<kind, lockfile, dest, temp, inodes, seen, Others>>

\* lock.__enter__ returns and the block under the lock begins
lock___enter__(p) ==
    /\ proc[p].pc = "enter"
    /\ proc' = [proc EXCEPT ![p].pc = "open"]
    /\ UNCHANGED <<kind, lockfile, dest, temp, inodes, seen, Others>>

\* atomic_write: open(filepath, mode) creates or truncates the temporary
\* file, or fails with IOError
atomic_write_open(p) ==
    /\ proc[p].pc = "open"
    /\ \/ /\ proc' = [proc EXCEPT ![p].pc = "write",
                                  ![p].fd = IF temp = "none" THEN p ELSE temp,
                                  ![p].prev = Some(Stored)]
          /\ temp' = IF temp = "none" THEN p ELSE temp
          /\ inodes' = [inodes EXCEPT ![IF temp = "none" THEN p ELSE temp] = <<>>]
       \/ /\ proc' = [proc EXCEPT ![p].pc = AfterWrite, ![p].exc = "IOError"]
          /\ UNCHANGED <<temp, inodes>>
    /\ UNCHANGED <<kind, lockfile, dest, seen, Others>>

\* the body of the atomic_write block: json.dump / serializer.dump write
\* the data to the open file, which buffers it; or the body raises IOError
\* after the first block
dump(p) ==
    /\ proc[p].pc = "write"
    /\ \/ proc' = [proc EXCEPT ![p].pc = "rename", ![p].buffer = Data(p),
                               ![p].body = "returned"]
       \/ proc' = [proc EXCEPT ![p].pc = "remove", ![p].buffer = <<p>>,
                               ![p].exc = "IOError", ![p].body = "raised"]
    /\ UNCHANGED <<kind, lockfile, dest, temp, inodes, seen, Others>>

\* the open file writes some of its buffer to the disk
flush(p) ==
    /\ proc[p].fd # "none"
    /\ \E k \in 1..Len(proc[p].buffer) :
          /\ inodes' = [inodes EXCEPT ![proc[p].fd] =
                            WriteAt(@, proc[p].offset, SubSeq(proc[p].buffer, 1, k))]
          /\ proc' = [proc EXCEPT ![p].buffer = SubSeq(@, k + 1, Len(@)),
                                  ![p].offset = @ + k]
    /\ UNCHANGED <<kind, lockfile, dest, temp, seen, Others>>

\* atomic_write: os.rename(filepath, path); OSError when filepath is gone
os_rename(p) ==
    /\ proc[p].pc = "rename"
    /\ IF temp = "none"
       THEN /\ proc' = [proc EXCEPT ![p].pc = "remove", ![p].exc = "OSError"]
            /\ UNCHANGED <<dest, temp>>
       ELSE /\ proc' = [proc EXCEPT ![p].pc = "remove"]
            /\ dest' = temp
            /\ temp' = "none"
    /\ inodes' = Freed(inodes, dest', temp', OpenElsewhere(p) \cup {proc[p].fd})
    /\ UNCHANGED <<kind, lockfile, seen, Others>>

\* atomic_write: finally os.remove(filepath), errors ignored
os_remove(p) ==
    /\ proc[p].pc = "remove"
    /\ proc' = [proc EXCEPT ![p].pc = "close"]
    /\ temp' = "none"
    /\ inodes' = Freed(inodes, dest, temp', OpenElsewhere(p) \cup {proc[p].fd})
    /\ UNCHANGED <<kind, lockfile, dest, seen, Others>>

\* atomic_write: the with statement closes the file, which writes the rest
\* of the buffer
close(p) ==
    /\ proc[p].pc = "close"
    /\ inodes' = Freed([inodes EXCEPT ![proc[p].fd] =
                             WriteAt(@, proc[p].offset, proc[p].buffer)],
                      dest, temp, OpenElsewhere(p))
    /\ proc' = [proc EXCEPT ![p].pc = AfterWrite, ![p].fd = "none",
                            ![p].buffer = <<>>, ![p].offset = 0]
    /\ UNCHANGED <<kind, lockfile, dest, temp, seen, Others>>

\* lock.__exit__, lock.release: self.locked = False
lock_release(p) ==
    /\ proc[p].pc = "unmark"
    /\ proc' = [proc EXCEPT ![p].pc = "unlink", ![p].locked = FALSE,
                            ![p].prev = None]
    /\ UNCHANGED <<kind, lockfile, dest, temp, inodes, seen, Others>>

\* lock.release: os.unlink(self.file); OSError when there is no such file
lock_unlink(p) ==
    /\ proc[p].pc = "unlink"
    /\ proc' = [proc EXCEPT ![p].pc = "return",
                            ![p].exc = IF lockfile = "none" THEN "OSError" ELSE @]
    /\ lockfile' = "none"
    /\ UNCHANGED <<kind, dest, temp, inodes, seen, Others>>

\* atomic_save returns True, or False on OSError and IOError; any other
\* exception leaves it, and the handler of atomic with it
atomic_save_return(p) ==
    /\ proc[p].pc = "return"
    /\ proc' = [proc EXCEPT
                  ![p].pc = IF proc[p].exc \in Caught \cup {""} THEN "restore"
                            ELSE "raised",
                  ![p].inner = IF proc[p].exc = "" THEN "True"
                               ELSE IF proc[p].exc \in Caught THEN "False" ELSE @,
                  ![p].exc = IF proc[p].exc \in Caught THEN "" ELSE @,
                  ![p].prev = None]
    /\ UNCHANGED <<kind, lockfile, dest, temp, inodes, seen, Others>>

\* the handler of atomic after func(*args, **kwargs): the value of func is
\* dropped; on the main thread the old handler is installed again and, when
\* a signal was caught, called (or the process exits, for SIG_DFL)
atomic_exit(p) ==
    /\ proc[p].pc = "restore"
    /\ proc' = [proc EXCEPT
                  ![p].pc = IF proc[p].main /\ proc[p].caught # <<>>
                               /\ proc[p].old = "SIG_DFL"
                            THEN "exited" ELSE "done",
                  ![p].handler = proc[p].old,
                  ![p].invoked = proc[p].main /\ proc[p].caught # <<>>
                                 /\ proc[p].old = "callable",
                  ![p].returned = "None"]
    /\ UNCHANGED <<kind, lockfile, dest, temp, inodes, seen, Others>>

\* SIGTERM reaches a main thread while the handler of atomic is installed:
\* lambda s, f: caught_signal.__setitem__(0, (s, f)) on the empty list
\* raises IndexError at the point the thread has reached
SIGTERM(p) ==
    /\ proc[p].main
    /\ proc[p].handler = "deferring"
    /\ proc[p].pc \notin {"raised", "del"}
    /\ proc' = [proc EXCEPT ![p].pc = Unwind(proc[p].pc),
                            ![p].exc = "IndexError",
                            ![p].body = IF proc[p].pc = "write" THEN "raised" ELSE @,
                            ![p].signalled = TRUE]
    /\ UNCHANGED <<kind, lockfile, dest, temp, inodes, seen, Others>>

\* lock.__del__ of a lock that never entered its block: release if locked
lock___del__(p) ==
    /\ proc[p].pc = "del"
    /\ proc' = [proc EXCEPT ![p].pc = "raised", ![p].locked = FALSE]
    /\ lockfile' = IF proc[p].locked THEN "none" ELSE lockfile
    /\ UNCHANGED <<kind, dest, temp, inodes, seen, Others>>

\* another process reads the destination
reader ==
    /\ seen' = Some(Stored)
    /\ UNCHANGED <<kind, proc, lockfile, dest, temp, inodes, Others>>

NextSave ==
    \/ \E p \in Procs :
          \/ atomic_enter(p) \/ lock_acquire(p) \/ lock_acquire_locked(p)
          \/ lock___enter__(p) \/ atomic_write_open(p) \/ dump(p) \/ flush(p)
          \/ os_rename(p) \/ os_remove(p) \/ close(p) \/ lock_release(p)
          \/ lock_unlink(p) \/ atomic_save_return(p) \/ atomic_exit(p)
          \/ SIGTERM(p) \/ lock___del__(p)
    \/ reader

SpecSave == InitSave /\ [][NextSave]_vars

(***************************************************************************)
(* Workflow.setting called with chains of keys on a settings content.      *)
(***************************************************************************)
key_x == <<"x">>

\* settings contents with empty and false values on the paths
SettingContents ==
    SettingsStates
    \cup {PyDict(key_update :> EmptyDict),
          PyDict(key_update :> PyDict(key_enabled :> PyBool(FALSE)
                                      @@ key_frequency :> PyInt(0))),
          PyDict(key_update :> PyNone @@ key_version :> PyStr(<<>>))}

\* the chains of keys asked for
Chains ==
    {<<>>, <<key_x>>, <<key_x, key_update>>, <<key_update>>,
     <<key_update, key_x>>, <<key_update, key_enabled>>,
     <<key_update, key_enabled, key_x>>, <<key_update, key_frequency>>,
     <<key_update, key_frequency, key_x>>, <<key_version>>,
     <<key_version, key_x>>,
     <<key_update, key_repository, key_github, key_username>>}

InitSetting ==
    /\ string = <<>>
    /\ self = None
    /\ other = None
    /\ text = None
    /\ raised = ""
    /\ result = NoResult
    /\ pc = "idle"
    /\ settings \in SettingContents
    /\ versionfile = None
    /\ cachefile = None
    /\ now = 0
    /\ ret = None
    /\ NoSave
    /\ NoUpdate

\* Workflow.setting(*chain)
Setting ==
    /\ \E chain \in Chains :
          ret' = Some([op |-> "setting", chain |-> chain,
                       out |-> setting(settings, chain)])
    /\ UNCHANGED <<settings, versionfile, cachefile, now>>
    /\ UNCHANGED <<versionVars, saveVars, updateVars>>

NextSetting == Setting

SpecSetting == InitSetting /\ [][NextSetting]_vars

(***************************************************************************)
(* Runs of a workflow over time: automatic and forced update checks, the   *)
(* updater thread, installation, and the menu that offers the update.      *)
(***************************************************************************)
InitUpdate ==
    /\ string = <<>>
    /\ self = None
    /\ other = None
    /\ text = None
    /\ raised = ""
    /\ result = NoResult
    /\ pc = "idle"
    /\ settings \in UpdaterStates
    /\ versionfile = None
    /\ cachefile = None
    /\ now = 0
    /\ ret = None
    /\ NoSave
    /\ host \in HostReleases
    /\ pending = None
    /\ contacts = <<>>

Rest == <<versionVars, saveVars>>

NoRelease == Release({}, <<>>, FALSE)

\* Workflow.check_update(forced, auto_install); Workflow.run calls it with
\* forced = False, the '> workflow check' and 'force-update' actions with
\* forced = True
CheckUpdate ==
    /\ pending = None
    /\ \E cached \in {update_available(settings, versionfile, cachefile, now)},
          forced \in BOOLEAN, auto_install \in BOOLEAN :
          /\ auto_install => forced
          /\ \E m \in {check_mode(bool(updatable(settings, TRUE)), forced,
                                  ~IsNone(cached.value))} :
                 IF cached.raised
                 THEN /\ pending' = None
                      /\ ret' = Some(Outcome("check_update", forced, "", FALSE,
                                             FALSE, None, TRUE))
                 ELSE /\ pending' = IF m.start
                                    THEN Some([forced |-> forced, mode |-> m.mode,
                                               auto_install |-> auto_install])
                                    ELSE None
                      /\ ret' = Some(Outcome("check_update", forced,
                                             IF m.start THEN m.mode ELSE "",
                                             FALSE, FALSE, None, FALSE))
    /\ UNCHANGED <<settings, versionfile, cachefile, now, host, contacts, Rest>>

\* workflow_updater.check_update(workflow, mode, auto_install) in its thread
Updater ==
    /\ pending # None
    /\ \E job \in {Get(pending)},
          can \in {bool(updatable(settings, TRUE))},
          r \in {read(cachefile, now, Some(host), SecondsPerHour)} :
       \E release \in {Get(r.value)} :
       \E found \in {updater_available(settings, versionfile, release)} :
       \E act \in {~found.raised /\ (job.mode = "always"
                      \/ (found.value /\ job.mode = "only_when_available"))} :
       \E install \in {act /\ found.value /\ job.auto_install} :
           /\ contacts' = IF can /\ r.called = 1 /\ ~job.forced
                          THEN IF contacts = <<>> THEN <<now>>
                               ELSE <<contacts[Len(contacts)], now>>
                          ELSE contacts
           /\ cachefile' = IF ~can THEN cachefile
                           ELSE IF install THEN cache_save(now, NoRelease)
                           ELSE r.file
           /\ ret' = IF ~can
                     THEN Some(Outcome("updater", job.forced, job.mode, FALSE,
                                       FALSE, None, FALSE))
                     ELSE Some(Outcome("updater", job.forced, job.mode,
                                       ~found.raised /\ found.value,
                                       act, IF install THEN Some(release) ELSE None,
                                       found.raised))
    /\ pending' = None
    /\ UNCHANGED <<settings, versionfile, now, host, Rest>>

\* Workflow.install_update(), with workflow_updater.install_update
InstallUpdate ==
    /\ \E cached \in {update_available(settings, versionfile, cachefile, now)} :
       \E go \in {~cached.raised /\ bool(updatable(settings, TRUE))
                   /\ ~IsNone(cached.value)} :
           /\ cachefile' = IF go THEN cache_save(now, NoRelease) ELSE cachefile
           /\ ret' = Some(Outcome("install_update", FALSE, "", go, go,
                                  IF go THEN cached.value ELSE None,
                                  cached.raised))
    /\ UNCHANGED <<settings, versionfile, now, host, pending, contacts, Rest>>

\* WorkflowActions.info without argument: the '> workflow' menu, which
\* offers 'Proceed with update' when update_available() gives a release
Menu ==
    /\ \E can \in {bool(updatable(settings, TRUE))},
          cached \in {update_available(settings, versionfile, cachefile, now)} :
       \E offer \in {can /\ ~cached.raised /\ ~IsNone(cached.value)} :
           ret' = Some(Outcome("menu", FALSE, "", offer, FALSE,
                               IF offer THEN cached.value ELSE None,
                               can /\ cached.raised))
    /\ UNCHANGED <<settings, versionfile, cachefile, now, host, pending,
                   contacts, Rest>>

\* time.time() advances between two runs of the workflow
Later ==
    /\ \E later \in RunInstants : later > now /\ now' = later
    /\ UNCHANGED <<settings, versionfile, cachefile, ret, host, pending,
                   contacts, Rest>>

NextUpdate == CheckUpdate \/ Updater \/ InstallUpdate \/ Menu \/ Later

SpecUpdate == InitUpdate /\ [][NextUpdate]_vars

(***************************************************************************)
(* The arguments of the workflow: Workflow.args decodes sys.argv, splits a *)
(* single argument at the spaces and, in an actionable workflow, hands the *)
(* tokens after the first '>' to WorkflowActions; when the action returns  *)
(* a true value it writes the feedback and leaves with sys.exit(0).        *)
(***************************************************************************)
MaxArgs == 3

key_actionable == <<"a", "c", "t", "i", "o", "n", "a", "b", "l", "e">>

word_help == <<"h", "e", "l", "p">>

word_workflow == <<"w", "o", "r", "k", "f", "l", "o", "w">>

word_settings == <<"s", "e", "t", "t", "i", "n", "g", "s">>

\* WorkflowActions.defaults
word_defaults == <<"d", "e", "f", "a", "u", "l", "t", "s">>

\* the keys of WorkflowActions
actions == {word_help, word_workflow, word_settings}

\* str.lower, on the capitals the arguments use
lower(s) ==
    LET small == "W" :> "w" @@ "H" :> "h" @@ "S" :> "s" @@ "C" :> "c"
    IN  [i \in DOMAIN s |-> IF s[i] \in DOMAIN small THEN small[s[i]] ELSE s[i]]

\* str.startswith
startswith(s, prefix) ==
    Len(prefix) <= Len(s) /\ SubSeq(s, 1, Len(prefix)) = prefix

\* the character with a two-digit hexadecimal code
chr == <<"3", "e">> :> ">" @@ <<"2", "0">> :> " "

\* str.decode('unicode-escape'): \xXX is the character of that code, \\ a
\* backslash, an unknown escape stays as it is; a truncated \x escape and
\* a backslash at the end raise UnicodeDecodeError.  value is the text
RECURSIVE unicode_escape(_)
unicode_escape(s) ==
    LET rest(n, done) ==
            LET tail == unicode_escape(SubSeq(s, n + 1, Len(s)))
            IN  [raised |-> tail.raised, value |-> done \o tail.value]
    IN  IF s = <<>> THEN [raised |-> FALSE, value |-> <<>>]
        ELSE IF s[1] # "\\" THEN rest(1, <<s[1]>>)
        ELSE IF Len(s) = 1 THEN [raised |-> TRUE, value |-> <<>>]
        ELSE IF s[2] = "\\" THEN rest(2, <<"\\">>)
        ELSE IF s[2] = "x"
        THEN IF Len(s) >= 4 /\ <<s[3], s[4]>> \in DOMAIN chr
             THEN rest(4, <<chr[<<s[3], s[4]>>]>>)
             ELSE [raised |-> TRUE, value |-> <<>>]
        ELSE rest(2, <<s[1], s[2]>>)

\* utils.decode: an empty text is returned as it is; normalisation to NFC
\* leaves the characters of the arguments alone
decode(t) ==
    IF t = <<>> THEN [raised |-> FALSE, value |-> t] ELSE unicode_escape(t)

\* list.index('>') when '>' is in the list, -1 otherwise
index_of_last(args_) ==
    IF \E i \in DOMAIN args_ : args_[i] = <<">">>
    THEN (CHOOSE i \in DOMAIN args_ :
              /\ args_[i] = <<">">>
              /\ \A j \in DOMAIN args_ : args_[j] = <<">">> => j <= i) - 1
    ELSE -1

index(args_) ==
    IF \E i \in DOMAIN args_ : args_[i] = <<">">>
    THEN (CHOOSE i \in DOMAIN args_ :
              /\ args_[i] = <<">">>
              /\ \A j \in DOMAIN args_ : args_[j] = <<">">> => i <= j) - 1
    ELSE -1

\* WorkflowActions.defaults(arg): the items of the menu whose name starts
\* with arg, or the item 'No match'; it returns True
defaults(arg) ==
    LET filter == lower(arg)
        found == {name \in actions : startswith(name, filter)}
    IN  [raised |-> FALSE, value |-> PyBool(TRUE),
         items |-> IF found = {} THEN {<<"N", "o", " ", "m", "a", "t", "c", "h">>}
                   ELSE found]

\* WorkflowActions.help(*parameters): it takes no parameter, opens the
\* help page, closes the window and returns None
help(parameters) ==
    IF Len(parameters) > 0
    THEN [raised |-> TRUE, value |-> PyNone, items |-> {}]
    ELSE [raised |-> FALSE, value |-> PyNone, items |-> {}]

\* WorkflowActions.info(*parameters): 'check', 'update' and 'force-update'
\* act and return False (Workflow.close()), anything else gives the menu
\* and returns True
info(parameters) ==
    LET arg == IF Len(parameters) > 0 THEN lower(parameters[1]) ELSE <<>>
        acts == arg \in {<<"c", "h", "e", "c", "k">>,
                         <<"u", "p", "d", "a", "t", "e">>,
                         <<"f", "o", "r", "c", "e", "-", "u", "p", "d", "a",
                           "t", "e">>}
    IN  [raised |-> FALSE, value |-> PyBool(~acts), items |-> {}]

\* WorkflowActions.settings(*parameters), with the displays it hands the
\* parameters to: a parameter chain that names an operation (open or clear
\* a directory, change an update setting) returns False
\* (Workflow.close()), any other gives a menu and returns True
actions_settings(parameters) ==
    LET word(i) == IF Len(parameters) >= i THEN lower(parameters[i]) ELSE <<>>
        data == word(1) = <<"d", "a", "t", "a">> /\ Len(parameters) > 1
                /\ word(2) \in {<<"o", "p", "e", "n", "-", "d", "a", "t", "a">>, <<"c", "l", "e", "a", "r", "-", "d", "a", "t", "a">>}
        cache == word(1) = <<"c", "a", "c", "h", "e">> /\ Len(parameters) > 1
                 /\ word(2) \in {<<"o", "p", "e", "n", "-", "c", "a", "c", "h", "e">>, <<"c", "l", "e", "a", "r", "-", "c", "a", "c", "h", "e">>}
        switch == word(1) = <<"u", "p", "d", "a", "t", "e">> /\ Len(parameters) > 2
                  /\ word(2) \in {<<"a", "u", "t", "o">>,
                                  <<"i", "n", "c", "l", "u", "d", "e">>}
                  /\ word(3) \in {<<"o", "n">>, <<"o", "f", "f">>}
        frequency == word(1) = <<"u", "p", "d", "a", "t", "e">> /\ Len(parameters) > 2
                     /\ word(2) = <<"f", "r", "e", "q", "u", "e", "n", "c", "y">>
                     /\ word(3) \in {<<"d", "a", "i", "l", "y">>,
                                     <<"w", "e", "e", "k", "l", "y">>,
                                         <<"m", "o", "n", "t", "h", "l", "y">>, <<"y", "e", "a", "r", "l", "y">>}
    IN  [raised |-> FALSE,
         value |-> PyBool(~(data \/ cache \/ switch \/ frequency)),
         items |-> {}]

\* self.actions.get(command)(*parameters)
handler(command, parameters) ==
    CASE command = word_help -> help(parameters)
      [] command = word_workflow -> info(parameters)
      [] command = word_settings -> actions_settings(parameters)

\* what Workflow.args did: the list args, the action called and what it
\* was given, the items of the defaults menu, the value the action
\* returned, how often the feedback was written, the status sys.exit was
\* called with ("" when it was not), and whether the list was returned to
\* the caller
ArgsOutcome(argv, list, target, passed, feedback, n, status, back, failed) ==
    [op |-> "args", argv |-> argv, args |-> list, target |-> target,
     passed |-> passed, items |-> feedback.items, value |-> feedback.value,
     written |-> n, status |-> status, returned |-> back, raised |-> failed]

\* feedback = False, before any action is called
NoFeedback == [raised |-> FALSE, value |-> PyBool(FALSE), items |-> {}]

\* Workflow.args
args(settings_, argv) ==
    LET leave(list, target, passed, feedback) ==
            IF feedback.raised
            THEN ArgsOutcome(argv, list, target, passed, feedback, 0, "",
                             FALSE, TRUE)
            ELSE IF bool(feedback.value)
            THEN ArgsOutcome(argv, list, target, passed, feedback, 1, "0",
                             FALSE, FALSE)
            ELSE ArgsOutcome(argv, list, target, passed, feedback, 0, "",
                             TRUE, FALSE)
        dispatch(list, at) ==
            LET parameters == SubSeq(list, at + 2, Len(list))
            IN  IF at = -1 THEN leave(list, <<>>, <<>>, NoFeedback)
                ELSE IF Len(parameters) = 0
                THEN leave(list, word_defaults, <<>>, defaults(<<>>))
                ELSE IF Head(parameters) \in actions
                THEN leave(list, Head(parameters), Tail(parameters),
                           handler(Head(parameters), Tail(parameters)))
                ELSE leave(list, word_defaults, <<Head(parameters)>>,
                           defaults(Head(parameters)))
        act(list) ==
            IF Len(list) > 0 /\ bool(setting(settings_, <<key_actionable>>))
            THEN dispatch(list, index(list))
            ELSE leave(list, <<>>, <<>>, NoFeedback)
        read_argv(decoded) ==
            IF \E i \in DOMAIN argv : decoded[i].raised
            THEN ArgsOutcome(argv, <<>>, <<>>, <<>>, NoFeedback, 0, "",
                             FALSE, TRUE)
            ELSE act(IF Len(decoded) = 1 THEN split(decoded[1].value, " ")
                     ELSE [i \in DOMAIN argv |-> decoded[i].value])
    IN  read_argv([i \in DOMAIN argv |-> decode(argv[i])])

\* settings of a workflow: without 'actionable', with it on and off, and
\* actionable with updates configured
ArgsSettings ==
    {EmptyDict,
     PyDict(key_actionable :> PyBool(TRUE)),
     PyDict(key_actionable :> PyBool(FALSE)),
     PyDict(key_actionable :> PyBool(TRUE)
            @@ UpdaterSettings(TRUE, 1, FALSE, Some(<<"1", ".", "0">>)).v)}

\* the words typed in the Alfred window
Words ==
    {<<">">>, word_help, word_workflow, word_settings, <<"c", "h", "e", "c", "k">>,
     <<"W", "o", "r">>, <<"x">>, <<>>, <<"\\", "x", "3", "e">>, <<"\\">>}

\* at most n words
Typed(n) == UNION {[1..k -> Words] : k \in 0..n}

\* ' '.join(words)
RECURSIVE join(_)
join(words) ==
    IF Len(words) = 0 THEN <<>>
    ELSE IF Len(words) = 1 THEN words[1]
    ELSE words[1] \o <<" ">> \o join(Tail(words))

\* sys.argv[1:]: the words as one argument each, as the single argument
\* Alfred passes for {query}, and that argument followed by another
Argvs ==
    Typed(MaxArgs)
    \cup {<<join(words)>> : words \in Typed(MaxArgs) \ {<<>>}}
    \cup {<<join(words), <<"x">>>> : words \in Typed(2) \ Typed(1)}

InitArgs ==
    /\ string = <<>>
    /\ self = None
    /\ other = None
    /\ text = None
    /\ raised = ""
    /\ result = NoResult
    /\ pc = "idle"
    /\ settings \in ArgsSettings
    /\ versionfile = None
    /\ cachefile = None
    /\ now = 0
    /\ ret = None
    /\ NoSave
    /\ NoUpdate

\* reading Workflow.args in a run of the workflow that was started with
\* argv; the action '> workflow check' calls Workflow.check_update(True)
\* before it returns.  The words do not reach the actions that install an
\* update or change the settings
Args ==
    /\ ret = None
    /\ \E argv \in Argvs :
       \E out \in {args(settings, argv)},
          cached \in {update_available(settings, versionfile, cachefile, now)} :
       \E checks \in {/\ ~out.raised
                      /\ out.target = word_workflow
                      /\ Len(out.passed) > 0
                      /\ lower(out.passed[1]) = <<"c", "h", "e", "c", "k">>},
          started \in {check_mode(bool(updatable(settings, TRUE)), TRUE,
                                  ~IsNone(cached.value)).start} :
              /\ ret' = Some(out)
              /\ pending' = IF checks /\ started
                            THEN Some([forced |-> TRUE, mode |-> "always",
                                       auto_install |-> FALSE])
                            ELSE pending
    /\ UNCHANGED <<settings, versionfile, cachefile, now, host, contacts>>
    /\ UNCHANGED <<versionVars, saveVars>>

NextArgs == Args

SpecArgs == InitArgs /\ [][NextArgs]_vars

(***************************************************************************)
(* Vocabulary of the properties, stated on the input text and the fields.  *)
(***************************************************************************)
\* the input less one leading 'v'
Body(s) == IF s # <<>> /\ s[1] = "v" THEN Tail(s) ELSE s

\* the digits and dots the body starts with, and what follows them
NumericPortion(s) == TakeWhile(Body(s), DigitChars \cup {"."})

AfterNumeric(s) == SliceFrom(Body(s), Len(NumericPortion(s)))

Components(s) == split(NumericPortion(s), ".")

IsNumeral(t) == t # <<>> /\ \A i \in 1..Len(t) : t[i] \in DigitChars

\* one, two or three dot-separated integers and nothing else
IsPlainNumeric(s) ==
    /\ AfterNumeric(s) = <<>>
    /\ Len(Components(s)) \in 1..3
    /\ \A i \in 1..Len(Components(s)) : IsNumeral(Components(s)[i])

\* the integer each numeral of the inputs denotes
Denotes(t) ==
    CASE t = <<"0">> -> 0
      [] t = <<"1">> -> 1
      [] t = <<"2">> -> 2
      [] t = <<"0", "1">> -> 1
      [] t = <<"1", "0">> -> 10

\* the integer an input gives at position i, 0 when it gives none
ComponentValue(s, i) ==
    IF i <= Len(Components(s)) THEN Denotes(Components(s)[i]) ELSE 0

\* the same input with the leading 'v' added or removed
OtherSpelling(s) == IF s # <<>> /\ s[1] = "v" THEN Tail(s) ELSE <<"v">> \o s

Triple(v) == <<v.major, v.minor, v.patch>>

LexGreater(a, b) ==
    \/ a[1] > b[1]
    \/ a[1] = b[1] /\ a[2] > b[2]
    \/ a[1] = b[1] /\ a[2] = b[2] /\ a[3] > b[3]

\* a prerelease label is present (an empty label is no label)
HasPrerelease(v) == v.release # None /\ v.release # Some(<<>>)

Done(op) == op \in DOMAIN result

BothVersions == ~IsNone(self) /\ ~IsNone(other) /\ IsVersion(Get(other))

(***************************************************************************)
(* C1: an input of one, two or three dot-separated non-negative integers,  *)
(* with or without one leading 'v', is parsed successfully; major, minor   *)
(* and patch are those integers, an omitted component is 0, release and    *)
(* build are None, and the version equals the one parsed from the same     *)
(* text with the 'v' added or removed.                                     *)
(***************************************************************************)
C1_PlainNumericParses ==
    (pc # "new" /\ IsPlainNumeric(string)) =>
        /\ pc # "failed"
        /\ ~IsNone(self)
        /\ Get(self).major = ComponentValue(string, 1)
        /\ Get(self).minor = ComponentValue(string, 2)
        /\ Get(self).patch = ComponentValue(string, 3)
        /\ Get(self).release = None
        /\ Get(self).build = None
        /\ ~IsNone(Version(OtherSpelling(string)))
        /\ __eq__(Get(self), Get(Version(OtherSpelling(string)))) = Return(TRUE)

C1_Witness ==
    /\ pc = "constructed"
    /\ string = <<"v", "1", ".", "1", "0">>
    /\ Triple(Get(self)) = <<1, 10, 0>>

(***************************************************************************)
(* C2: when the (major, minor, patch) triples of two versions differ,      *)
(* self > other is true exactly when self's triple is lexicographically    *)
(* greater, whatever the prerelease and build fields are.                  *)
(***************************************************************************)
C2_TripleDecides ==
    (Done("gt") /\ BothVersions /\ Triple(Get(self)) # Triple(Get(other))) =>
        result["gt"] = Return(LexGreater(Triple(Get(self)), Triple(Get(other))))

C2_Witness ==
    /\ Done("gt") /\ BothVersions
    /\ Triple(Get(self)) = <<1, 0, 1>>
    /\ Triple(Get(other)) = <<1, 0, 0>>
    /\ HasPrerelease(Get(self)) /\ ~HasPrerelease(Get(other))
    /\ result["gt"] = Return(TRUE)

(***************************************************************************)
(* C3: with equal triples, when exactly one of the two versions has a      *)
(* prerelease label the one without it is the greater (release >           *)
(* prerelease is true, prerelease > release is false); when neither has    *)
(* one, neither is greater.                                                *)
(***************************************************************************)
C3_ReleaseAbovePrerelease ==
    (pc = "compared" /\ BothVersions /\ Triple(Get(self)) = Triple(Get(other))) =>
        /\ (~HasPrerelease(Get(self)) /\ HasPrerelease(Get(other))) =>
              result["gt"] = Return(TRUE) /\ result["lt"] = Return(FALSE)
        /\ (HasPrerelease(Get(self)) /\ ~HasPrerelease(Get(other))) =>
              result["gt"] = Return(FALSE) /\ result["lt"] = Return(TRUE)
        /\ (~HasPrerelease(Get(self)) /\ ~HasPrerelease(Get(other))) =>
              result["gt"] = Return(FALSE) /\ result["lt"] = Return(FALSE)

C3_Witness ==
    /\ pc = "compared" /\ BothVersions
    /\ Triple(Get(self)) = Triple(Get(other))
    /\ Get(self).release = None
    /\ Get(other).release = Some(<<"a", ".", "1">>)
    /\ result["gt"] = Return(TRUE)

DotCount(label) == Len(split(label, ".")) - 1

TrailingNumber(v) == DecimalValue(split(Get(v.release), ".")[2], 0)

BothNumbered ==
    /\ BothVersions
    /\ Triple(Get(self)) = Triple(Get(other))
    /\ HasPrerelease(Get(self)) /\ DotCount(Get(Get(self).release)) = 1
    /\ HasPrerelease(Get(other)) /\ DotCount(Get(Get(other).release)) = 1
    /\ IsNumeral(split(Get(Get(self).release), ".")[2])
    /\ IsNumeral(split(Get(Get(other).release), ".")[2])

(***************************************************************************)
(* C4: with equal triples, when both prerelease labels contain exactly one *)
(* '.', self > other is true exactly when the trailing component of self's *)
(* label is numerically greater than that of other's label ('a.10' is      *)
(* greater than 'a.2').                                                    *)
(***************************************************************************)
C4_TrailingNumbersCompareNumerically ==
    (Done("gt") /\ BothNumbered) =>
        result["gt"] = Return(TrailingNumber(Get(self)) > TrailingNumber(Get(other)))

(***************************************************************************)
(* C5: the ordering is total: for two versions exactly one of self < other,*)
(* self == other, self > other holds, and self <= other together with      *)
(* other <= self (that is, self >= other) implies self == other.           *)
(***************************************************************************)
C5_TotalOrder ==
    (pc = "compared" /\ BothVersions) =>
        /\ \/ result["lt"].value /\ ~result["eq"].value /\ ~result["gt"].value
           \/ ~result["lt"].value /\ result["eq"].value /\ ~result["gt"].value
           \/ ~result["lt"].value /\ ~result["eq"].value /\ result["gt"].value
        /\ (result["le"].value /\ result["ge"].value) => result["eq"].value

DifferOnlyInBuild(a, b) ==
    /\ Triple(a) = Triple(b)
    /\ a.release = b.release
    /\ a.build # b.build

Relations(a, b) ==
    <<__eq__(a, b), __ne__(a, b), __lt__(a, b), __le__(a, b), __gt__(a, b),
      __ge__(a, b)>>

(***************************************************************************)
(* C6: build never influences a comparison: two versions that differ only  *)
(* in build are equal, and each of the six relations gives the same result *)
(* for either of them against any third version.                           *)
(***************************************************************************)
C6_BuildIgnored ==
    (pc = "compared" /\ BothVersions /\ DifferOnlyInBuild(Get(self), Get(other))) =>
        /\ result["eq"] = Return(TRUE)
        /\ result["ne"] = Return(FALSE)
        /\ \A b \in {o \in OrderOthers : IsVersion(o)} :
              Relations(Get(self), b) = Relations(Get(other), b)

(***************************************************************************)
(* C7: rendering round-trips through parsing: for a successfully parsed    *)
(* version, parsing its rendering succeeds and gives the same major,       *)
(* minor, patch, prerelease and build.                                     *)
(***************************************************************************)
C7_RenderRoundTrips ==
    (pc \in {"reparsed", "refused"}) =>
        /\ pc = "reparsed"
        /\ segments(Get(other)) = segments(Get(self))

(***************************************************************************)
(* C8: for an input that parses successfully, has no leading 'v' and has   *)
(* all three numeric components, the rendering is exactly the input.       *)
(***************************************************************************)
C8_RenderReproducesInput ==
    (/\ pc = "rendered"
     /\ ~StartsWith(string, "v")
     /\ Len(Components(string)) = 3) =>
        Get(text) = string

NoLeadingNumber(s) == Body(s) = <<>> \/ Body(s)[1] \notin DigitChars

TooManyComponents(s) == Len(Components(s)) > 3

BarePlusBuild(s) ==
    /\ NumericPortion(s) # <<>>
    /\ Len(AfterNumeric(s)) >= 2
    /\ AfterNumeric(s)[1] = "+"

IsSuffix(t) ==
    /\ t # <<>>
    /\ t[1] = "-"
    /\ LET pieces == split(Tail(t), "+")
       IN  /\ Len(pieces) \in 1..2
           /\ \A i \in 1..Len(pieces) : pieces[i] # <<>>

Conforms(s) ==
    /\ Len(Components(s)) \in 1..3
    /\ \A i \in 1..Len(Components(s)) : IsNumeral(Components(s)[i])
    /\ AfterNumeric(s) = <<>> \/ IsSuffix(AfterNumeric(s))

(***************************************************************************)
(* C10: parsing fails for every input that is not, as a whole string, of   *)
(* the form [v]major[.minor[.patch]][-prerelease[+build]]: a version is    *)
(* never built from only a prefix of the input.                            *)
(***************************************************************************)
C10_NonConformingInputsFail ==
    (pc = "constructed") => Conforms(string)

\* the characters a prerelease label is made of: any but '+'
LabelChars == (RestChars \cup DigitChars \cup {"v", "b", "x", "y"}) \ {"+"}

\* the text between the '-' after the numeric portion and the first '+'
LabelText(s) == TakeWhile(Tail(AfterNumeric(s)), LabelChars)

(***************************************************************************)
(* C11 (as claimed): the stored prerelease label of a successfully parsed  *)
(* version, when present, does not begin with '-' or '+'.                  *)
(***************************************************************************)
C11_LabelHasNoLeadingSeparator ==
    (pc = "constructed" /\ Truthy(Get(self).release)) =>
        Get(Get(self).release)[1] \notin {"-", "+"}

(***************************************************************************)
(* C11 (amended): the stored prerelease label, when present, is the text   *)
(* after the one '-' that follows the numeric portion, up to the first     *)
(* '+': that '-' is consumed and not stored, and the label never begins    *)
(* with '+' (it begins with '-' when a second '-' follows the first).      *)
(***************************************************************************)
C11_IntroducingSeparatorConsumed ==
    (pc = "constructed" /\ ~IsNone(Get(self).release)) =>
        /\ StartsWith(AfterNumeric(string), "-")
        /\ Get(Get(self).release) = LabelText(string)
        /\ ~StartsWith(Get(Get(self).release), "+")

C11_Witness ==
    /\ pc = "constructed"
    /\ string = <<"1", "-", "-", "a">>
    /\ Get(self).release = Some(<<"-", "a">>)

Operators == {"eq", "ne", "gt", "ge", "lt", "le"}

(***************************************************************************)
(* C12: each of the six comparisons of a Version with a value that is not  *)
(* a Version raises ValueError and returns no boolean; the operand is not  *)
(* parsed, even when it is the text of an equal version.                   *)
(***************************************************************************)
C12_NonVersionOperandRaises ==
    (~IsNone(self) /\ ~IsVersion(Get(other))) =>
        \A op \in Operators : Done(op) => result[op] = NotAVersion

C12_Witness ==
    /\ pc = "compared"
    /\ Get(other) = StrObject(<<"1", ".", "0", ".", "1">>)
    /\ Get(self).version = <<"1", ".", "0", ".", "1">>
    /\ \A op \in Operators : result[op].raised

\* the label has zero or more than one '.': no trailing number is extracted
Unnumbered(v) == DotCount(Get(v.release)) # 1

BothLabelled ==
    /\ BothVersions
    /\ Triple(Get(self)) = Triple(Get(other))
    /\ HasPrerelease(Get(self))
    /\ HasPrerelease(Get(other))

(***************************************************************************)
(* C13: with equal triples and a prerelease on both sides: when the left   *)
(* label has zero or more than one '.', left > right is false whatever the *)
(* right label is; when only the right label has zero or more than one     *)
(* '.', left > right holds exactly when the left label's trailing number   *)
(* is greater than 0.                                                      *)
(***************************************************************************)
C13_SentinelComparison ==
    (Done("gt") /\ BothLabelled) =>
        /\ Unnumbered(Get(self)) => result["gt"] = Return(FALSE)
        /\ (/\ ~Unnumbered(Get(self))
            /\ Unnumbered(Get(other))
            /\ IsNumeral(split(Get(Get(self).release), ".")[2])) =>
              result["gt"] = Return(TrailingNumber(Get(self)) > 0)

\* the last call was op
Called(op) == ~IsNone(ret) /\ Get(ret).op = op

\* the file existed at the call and was no older than days days
Fresh(file, at, days) ==
    ~IsNone(file) /\ at - Get(file).mtime <= days * SecondsPerDay

\* the update frequency in days: the setting, or one day
FrequencyDays ==
    IF bool(setting(settings, <<key_update, key_frequency>>))
    THEN setting(settings, <<key_update, key_frequency>>).v ELSE 1

\* the workflow's own version, None when none is configured
OwnVersion ==
    IF bool(setting(settings, <<key_version>>))
    THEN Version(setting(settings, <<key_version>>).v)
    ELSE IF Truthy(versionfile) THEN Version(Get(versionfile)) ELSE None

\* the cached record carries a version strictly greater than the workflow's
NewerCached(file) ==
    /\ "version" \in Get(file).data.keys
    /\ ~IsNone(Version(Get(file).data.version))
    /\ ~IsNone(OwnVersion)
    /\ __gt__(Get(Version(Get(file).data.version)), Get(OwnVersion)) = Return(TRUE)

(* C14: Workflow.update_available returns, in every state of the settings, *)
(* the cache and the local version (a workflow without a configured        *)
(* version included), either the cached release record or None, and never  *)
(* raises; it returns the record exactly when the workflow is updatable, a *)
(* non-stale '.workflow_updater' record with a 'version' exists and that   *)
(* version is strictly greater than the workflow's own version.            *)
C14_UpdateAvailableDecides ==
    Called("update_available") =>
        LET r == Get(ret)
            offered == /\ bool(updatable(settings, TRUE))
                       /\ Fresh(r.before, r.at, FrequencyDays)
                       /\ NewerCached(r.before)
        IN  /\ ~r.out.raised
            /\ r.out.value = IF offered THEN Some(Get(r.before).data) ELSE None

(* C20: WorkflowCache.read(filename, regenerator, threshold) returns the   *)
(* stored content without calling the regenerator when the cache file      *)
(* exists and either threshold is -1 or the age of the file does not       *)
(* exceed threshold; otherwise it returns None when no regenerator is      *)
(* given, and else calls the regenerator exactly once, saves its result    *)
(* under filename and returns that result.                                 *)
C20_ReadServesOrRegenerates ==
    Called("read") =>
        LET r == Get(ret)
            served == /\ ~IsNone(r.before)
                      /\ \/ r.threshold = -1
                         \/ r.at - Get(r.before).mtime <= r.threshold
        IN  /\ ~r.out.raised
            /\ IF served
               THEN /\ r.out.value = Some(Get(r.before).data)
                    /\ r.called = 0
                    /\ cachefile = r.before
               ELSE IF IsNone(r.regenerator)
               THEN /\ r.out.value = None
                    /\ r.called = 0
                    /\ cachefile = r.before
               ELSE /\ r.called = 1
                    /\ r.out.value = r.regenerator
                    /\ cachefile = Some([mtime |-> r.at, data |-> Get(r.regenerator)])

(* C15: WorkflowSettings.save, WorkflowCache.save and WorkflowData.save    *)
(* each return True when the file was written successfully and False when  *)
(* an OSError or IOError occurred during the write.                        *)
C15_SaveReportsOutcome ==
    \A p \in Procs :
        proc[p].pc = "done" =>
            /\ proc[p].inner = "True" => proc[p].returned = "True"
            /\ proc[p].inner = "False" => proc[p].returned = "False"

(* C16: a file written through atomic_write is replaced atomically: at     *)
(* every moment during and after the write a concurrent reader of the      *)
(* destination sees the complete previous content or the complete new      *)
(* content, never an empty or partially written file.                      *)
C16_ReaderSeesCompleteContent ==
    ~IsNone(seen) => Get(seen) \in {<<"absent">>, Old} \cup {Data(p) : p \in Procs}

\* caller p has just left its atomic_write block, and no other caller was
\* in the block with it: under the settings lock, or saving alone
LeftBlock(p) ==
    /\ proc[p].pc = AfterWrite
    /\ ~IsNone(proc[p].prev)
    /\ kind = "settings" \/ \A q \in Procs \ {p} : proc[q].pc = "idle"

(* C17: if the body of an atomic_write block raises, the destination keeps *)
(* its previous content (or stays absent) and the temporary file no longer *)
(* exists afterwards; on every exit from atomic_write, successful or not,  *)
(* no temporary file remains.                                              *)
C17_NoTemporaryFileRemains ==
    \A p \in Procs :
        LeftBlock(p) =>
            /\ temp = "none"
            /\ proc[p].body = "raised" => Stored = Get(proc[p].prev)

\* the callers between a successful acquire of the lock and its release
Inside ==
    {p \in Procs : proc[p].pc \in {"mark", "enter", "open", "write", "rename",
                                   "remove", "close", "unmark", "unlink"}}

(* C18: the settings lock gives mutual exclusion: of the callers of        *)
(* WorkflowSettings.save on one path at most one is between a successful   *)
(* acquire of the lock and its release at any time, and a lock file is     *)
(* removed only by the caller that created it.                             *)
C18_SettingsLockExcludes ==
    /\ [](kind = "settings" => Cardinality(Inside) <= 1)
    /\ [][(lockfile # "none" /\ lockfile' = "none") =>
              /\ proc[lockfile].pc \in {"unlink", "del"}
              /\ proc'[lockfile].pc # proc[lockfile].pc]_vars

C18_Witness ==
    /\ kind = "settings"
    /\ lockfile = "p1"
    /\ proc["p1"].pc = "rename"
    /\ proc["p2"].pc = "acquire"
    /\ proc["p2"].handler = "deferring"

(* C19: the atomic decorator postpones SIGTERM: when SIGTERM is delivered  *)
(* while a wrapped function runs on the main thread, the function is not   *)
(* interrupted and runs to completion; only afterwards is the previously   *)
(* installed handler restored and invoked with the caught signal (or the   *)
(* process exits when the previous handler was the default).               *)
C19_SigtermPostponed ==
    \A p \in Procs :
        proc[p].signalled =>
            /\ proc[p].exc # "IndexError"
            /\ proc[p].pc \notin {"raised", "del"}
            /\ proc[p].pc \in {"done", "exited"} =>
                  /\ proc[p].handler = proc[p].old
                  /\ proc[p].old = "callable" => proc[p].invoked
                  /\ proc[p].old = "SIG_DFL" => proc[p].pc = "exited"

\* following the keys of chain through nested dictionaries from value:
\* whether every key exists, and the value found
RECURSIVE Lookup(_, _)
Lookup(value, chain) ==
    IF chain = <<>> THEN [exists |-> TRUE, value |-> value]
    ELSE IF value.t = "dict" /\ chain[1] \in DOMAIN value.v
    THEN Lookup(value.v[chain[1]], Tail(chain))
    ELSE [exists |-> FALSE, value |-> PyNone]

(* C21: Workflow.setting(k1, ..., kn) returns the value found by following *)
(* the keys through the nested settings when every key on the path exists, *)
(* and returns None whenever some key on the path does not exist, for      *)
(* every settings content, empty settings and paths through false or empty *)
(* values included.                                                        *)
C21_SettingFollowsKeys ==
    Called("setting") =>
        Get(ret).out = Lookup(settings, Get(ret).chain).value


\* update.enabled is on
AutoUpdate == bool(setting(settings, <<key_update, key_enabled>>))

(* C22: with auto update enabled and the update frequency at f days, the   *)
(* update checks that are not forced contact the release host at most once *)
(* in any period of f days: two consecutive contacts are at least f days   *)
(* apart.                                                                  *)
C22_AutomaticChecksSpaced ==
    (AutoUpdate /\ FrequencyDays \in {1, 7, 30, 365} /\ Len(contacts) = 2) =>
        contacts[2] - contacts[1] >= FrequencyDays * SecondsPerDay

\* update.include-prereleases is on
IncludePrereleases ==
    bool(setting(settings, <<key_update, key_include_prereleases>>))

(* C23: while update.include-prereleases is off, a release the host flags  *)
(* as a prerelease is never reported as an available update and never      *)
(* installed, by the '> workflow' menu (which reports what                 *)
(* update_available returns), install_update or the updater.               *)
C23_PrereleaseWithheld ==
    (~IsNone(ret) /\ ~IncludePrereleases /\ ~IsNone(Get(ret).record)) =>
        ~Get(Get(ret).record).prerelease

Actionable == bool(setting(settings, <<key_actionable>>))

\* the tokens that follow the first '>' of a list of tokens
RECURSIVE AfterFirst(_)
AfterFirst(tokens) ==
    IF tokens = <<>> THEN <<>>
    ELSE IF Head(tokens) = <<">">> THEN Tail(tokens)
    ELSE AfterFirst(Tail(tokens))

\* the defaults menu filtered by a token
Filtered(token) ==
    LET found == {name \in actions : startswith(name, lower(token))}
    IN  IF found = {} THEN {<<"N", "o", " ", "m", "a", "t", "c", "h">>}
        ELSE found

(* C24: in an actionable workflow whose arguments (decoded, and split when *)
(* there is one) contain the token '>', Workflow.args hands the tokens     *)
(* after the token that follows the first '>' to the action registered     *)
(* under that token, shows the defaults menu filtered by that token when   *)
(* no action is registered under it, and the whole defaults menu when      *)
(* nothing follows '>'; when the action returns a true value the feedback  *)
(* is written once, the process exits with status 0 and the list of        *)
(* arguments is not returned to the caller.                                *)
C24_ArgsDispatches ==
    (/\ Called("args")
     /\ Actionable
     /\ \E i \in DOMAIN Get(ret).args : Get(ret).args[i] = <<">">>) =>
        LET out == Get(ret)
            after == AfterFirst(out.args)
        IN  /\ (after # <<>> /\ Head(after) \in actions) =>
                   /\ out.target = Head(after)
                   /\ out.passed = Tail(after)
            /\ (after # <<>> /\ Head(after) \notin actions) =>
                   /\ out.target = word_defaults
                   /\ out.passed = <<Head(after)>>
                   /\ out.items = Filtered(Head(after))
            /\ after = <<>> =>
                   /\ out.target = word_defaults
                   /\ out.passed = <<>>
                   /\ out.items = actions
            /\ (~out.raised /\ bool(out.value)) =>
                   /\ out.written = 1
                   /\ out.status = "0"
                   /\ ~out.returned

\* a registered action was given tokens and returned a true value
C24_Witness ==
    /\ Called("args")
    /\ Actionable
    /\ Get(ret).target \in actions
    /\ Get(ret).passed # <<>>
    /\ bool(Get(ret).value)
    /\ Get(ret).written = 1

====
